---- MODULE Spec2Model ----
(***************************************************************************)
(* tools/traceOntoGraph.py: overlay of a fault-injection trace onto the    *)
(* dot graph of a program.  Texts are sequences of one-character strings,  *)
(* so that substring matching, the [:-3] slice and the newline written by  *)
(* print are modelled character by character.                              *)
(***************************************************************************)
EXTENDS Integers, Sequences, FiniteSets, TLC

VARIABLES trace, traceStatus, graphText, graphOK, output,
          sysStdout, oldSTDOut, faultReports, graphLines, r, i, pc, error,
          console, fileText, second, origLines, prevLines

vars == <<trace, traceStatus, graphText, graphOK, output,
          sysStdout, oldSTDOut, faultReports, graphLines, r, i, pc, error,
          console, fileText, second, origLines, prevLines>>

(* ---------------- bounds ---------------- *)
MaxReports == 2
MaxLines == 2

(* ---------------- texts of the program ---------------- *)
Prefix == <<"l", "l", "f", "i", "I", "D", "_">>
ShapeTag == <<" ", "[", "s", "h", "a", "p", "e">>
RedSuffix == <<",", " ", "c", "o", "l", "o", "r", "=", "\"", "r", "e", "d", "\"", "]", ";", "\n">>
YellowSuffix == <<",", " ", "s", "t", "y", "l", "e", "=", "\"", "f", "i", "l", "l", "e", "d", "\"", ",", " ", "f", "i", "l", "l", "c", "o", "l", "o", "r", "=", "\"", "y", "e", "l", "l", "o", "w", "\"", "]", ";", "\n">>

Digit(d) == <<"0", "1", "2", "3", "4", "5", "6", "7", "8", "9">>[d + 1]

RECURSIVE Str(_)
Str(n) == IF n < 10 THEN <<Digit(n)>> ELSE Str(n \div 10) \o <<Digit(n % 10)>>

Decl(id) == Prefix \o Str(id) \o ShapeTag

Contains(sub, s) ==
  \/ sub = <<>>
  \/ \E p \in 1..(Len(s) - Len(sub) + 1) :
       s[p] = sub[1] /\ SubSeq(s, p, p + Len(sub) - 1) = sub

CutLast2(s) == SubSeq(s, 1, IF Len(s) > 2 THEN Len(s) - 2 ELSE 0)

CutLast3(s) == SubSeq(s, 1, IF Len(s) > 3 THEN Len(s) - 3 ELSE 0)

MarkFaultCut2(line, id) ==
  IF Contains(Decl(id), line)
  THEN SubSeq(line, 1, Len(line) - 2) \o RedSuffix
  ELSE line

MarkFaultAlways(line, id) == CutLast3(line) \o RedSuffix

MarkFaultOnce(line, id) ==
  IF Contains(Decl(id), line) /\ ~Contains(<<"c", "o", "l", "o", "r", "=", "\"", "r", "e", "d", "\"">>, line)
  THEN CutLast3(line) \o RedSuffix
  ELSE line

MarkFault(line, id) ==
  IF Contains(Decl(id), line) THEN CutLast3(line) \o RedSuffix ELSE line

MarkAffectedKeep(line, x) ==
  IF Contains(Decl(x), line) THEN line \o YellowSuffix ELSE line

MarkAffected(line, x) ==
  IF Contains(Decl(x), line) THEN CutLast3(line) \o YellowSuffix ELSE line

MarkFirstAffected(line, xs) ==
  IF xs = <<>> THEN line ELSE MarkAffected(line, Head(xs))

RECURSIVE MarkAllAffected(_, _)
MarkAllAffected(line, xs) ==
  IF xs = <<>> THEN line
  ELSE MarkAllAffected(MarkAffected(line, Head(xs)), Tail(xs))

RECURSIVE MarkAffectedThenFault(_, _, _)
MarkAffectedThenFault(line, xs, id) ==
  IF xs = <<>> THEN MarkFault(line, id)
  ELSE MarkAffectedThenFault(MarkAffected(line, Head(xs)), Tail(xs), id)

EditLineAffectedFirst(line, rep) ==
  MarkAffectedThenFault(line, rep.affected, rep.faultID)

EditLine(line, rep) ==
  MarkAllAffected(MarkFault(line, rep.faultID), rep.affected)

SetLineFrom(ls, j, v) == [k \in DOMAIN ls |-> IF k >= j THEN v ELSE ls[k]]

SetLine(ls, j, v) == [ls EXCEPT ![j] = v]

FirstNewline(t) ==
  IF \E p \in 1..Len(t) : t[p] = "\n"
  THEN CHOOSE p \in 1..Len(t) : t[p] = "\n" /\ \A q \in 1..(p - 1) : t[q] # "\n"
  ELSE Len(t)

RECURSIVE ReadLines(_)
ReadLines(t) ==
  IF t = <<>> THEN <<>>
  ELSE LET n == FirstNewline(t)
       IN <<SubSeq(t, 1, n)>> \o ReadLines(SubSeq(t, n + 1, Len(t)))

RECURSIVE Join(_)
Join(ls) == IF ls = <<>> THEN <<>> ELSE Head(ls) \o Join(Tail(ls))

Printed(ls) == Join(ls) \o <<"\n">>

(* ---------------- inputs ---------------- *)
(* A report is what the loop reads of it: rep.faultID and the members of    *)
(* rep.getAffectedSet() in the order the for statement yields them.  Graph  *)
(* files are texts of up to MaxLines lines in which each identifier is      *)
(* declared on at most one line; only the last line may lack its newline.   *)
IDs == {7, 12}

AffectedOrders ==
  {<<>>} \cup {<<x>> : x \in IDs}
         \cup {<<x, y>> : <<x, y>> \in {p \in IDs \X IDs : p[1] # p[2]}}

Reports == [faultID : IDs, affected : AffectedOrders]

Traces == UNION {[1..n -> Reports] : n \in 0..MaxReports}

BoxTail == <<"=", "b", "o", "x", "]", ";", "\n">>
EdgeLine == <<"l", "l", "f", "i", "I", "D", "_", "7", " ", "-", ">", " ", "l", "l", "f", "i", "I", "D", "_", "1", "2", ";", "\n">>
NodeLine(id) == Decl(id) \o BoxTail
TwoLine == Decl(7) \o <<" ">> \o Decl(12) \o <<"]", ";", "\n">>
BareLine == Decl(7)

FullLines == {NodeLine(id) : id \in IDs} \cup {EdgeLine, TwoLine}
LastLines == FullLines \cup {BareLine}

Declares(id, ls) == {j \in DOMAIN ls : Contains(Decl(id), ls[j])}

GraphLineSeqs ==
  {<<>>} \cup
  UNION {{body \o <<last>> : body \in [1..(n - 1) -> FullLines], last \in LastLines}
           : n \in 1..MaxLines}

GraphFiles ==
  {Join(ls) : ls \in {g \in GraphLineSeqs : \A id \in IDs : Cardinality(Declares(id, g)) <= 1}}

(* ---------------- the run ---------------- *)
Init ==
  /\ traceStatus \in {"ok", "unreadable", "malformed"}
  /\ trace \in (IF traceStatus = "ok" THEN Traces ELSE {<<>>})
  /\ graphOK \in BOOLEAN
  /\ graphText \in (IF graphOK THEN GraphFiles ELSE {<<>>})
  /\ output \in {0, 1}
  /\ sysStdout = "console"
  /\ oldSTDOut = "unset"
  /\ faultReports = <<>>
  /\ graphLines = <<>>
  /\ r = 1
  /\ i = 1
  /\ pc = "call"
  /\ error = "none"
  /\ console = <<>>
  /\ fileText = <<>>
  /\ second = FALSE
  /\ origLines = <<>>
  /\ prevLines = <<>>

inputs == <<trace, traceStatus, graphText, graphOK, output, second, prevLines>>

Call ==
  /\ pc = "call"
  /\ oldSTDOut' = sysStdout
  /\ IF output # 0
     THEN sysStdout' = "file" /\ fileText' = <<>>
     ELSE UNCHANGED <<sysStdout, fileText>>
  /\ pc' = "parse"
  /\ UNCHANGED <<inputs, origLines, faultReports, graphLines, r, i, error, console>>

ParseSwallow ==
  /\ pc = "parse"
  /\ faultReports' = trace
  /\ pc' = "read"
  /\ UNCHANGED <<inputs, origLines, sysStdout, oldSTDOut, graphLines, r, i, error, console, fileText>>

Parse ==
  /\ pc = "parse"
  /\ IF traceStatus = "ok"
     THEN faultReports' = trace /\ pc' = "read" /\ UNCHANGED error
     ELSE /\ pc' = "raised"
          /\ error' = (IF traceStatus = "unreadable" THEN "IOError" ELSE "ParseError")
          /\ UNCHANGED faultReports
  /\ UNCHANGED <<inputs, origLines, sysStdout, oldSTDOut, graphLines, r, i, console, fileText>>

ReadGraph ==
  /\ pc = "read"
  /\ IF graphOK
     THEN graphLines' = ReadLines(graphText) /\ pc' = "loop" /\ UNCHANGED error
     ELSE pc' = "raised" /\ error' = "IOError" /\ UNCHANGED graphLines
  /\ origLines' = graphLines'
  /\ r' = 1
  /\ i' = 1
  /\ UNCHANGED <<inputs, sysStdout, oldSTDOut, faultReports, console, fileText>>

LineStep ==
  /\ pc = "loop"
  /\ r <= Len(faultReports)
  /\ i <= Len(graphLines)
  /\ graphLines' = SetLine(graphLines, i, EditLine(graphLines[i], faultReports[r]))
  /\ i' = i + 1
  /\ UNCHANGED <<inputs, origLines, sysStdout, oldSTDOut, faultReports, r, pc, error, console, fileText>>

NextReport ==
  /\ pc = "loop"
  /\ r <= Len(faultReports)
  /\ i > Len(graphLines)
  /\ r' = r + 1
  /\ i' = 1
  /\ UNCHANGED <<inputs, origLines, sysStdout, oldSTDOut, faultReports, graphLines, pc, error, console, fileText>>

PrintOut ==
  /\ pc = "loop"
  /\ r > Len(faultReports)
  /\ IF sysStdout = "file"
     THEN fileText' = fileText \o Printed(graphLines) /\ UNCHANGED console
     ELSE console' = console \o Printed(graphLines) /\ UNCHANGED fileText
  /\ pc' = "restore"
  /\ UNCHANGED <<inputs, origLines, sysStdout, oldSTDOut, faultReports, graphLines, r, i, error>>

Restore ==
  /\ pc = "restore"
  /\ sysStdout' = oldSTDOut
  /\ pc' = "returned"
  /\ UNCHANGED <<inputs, origLines, oldSTDOut, faultReports, graphLines, r, i, error, console, fileText>>

Target == IF output # 0 THEN fileText ELSE console

(* The caller feeds the text captured from standard output (the usage line  *)
(* redirects it to a new dot file) to a second call with the same trace.    *)
Rerun ==
  /\ pc = "returned"
  /\ ~second
  /\ output = 0
  /\ second' = TRUE
  /\ prevLines' = origLines
  /\ origLines' = <<>>
  /\ graphText' = Target
  /\ console' = <<>>
  /\ fileText' = <<>>
  /\ oldSTDOut' = "unset"
  /\ faultReports' = <<>>
  /\ graphLines' = <<>>
  /\ r' = 1
  /\ i' = 1
  /\ pc' = "call"
  /\ UNCHANGED <<trace, traceStatus, graphOK, output, sysStdout, error>>

Next ==
  \/ Call
  \/ Parse
  \/ ReadGraph
  \/ LineStep
  \/ NextReport
  \/ PrintOut
  \/ Restore
  \/ Rerun

Spec == Init /\ [][Next]_vars

(* ---------------- vocabulary of the properties ---------------- *)
RedFragment == <<",", " ", "c", "o", "l", "o", "r", "=", "\"", "r", "e", "d", "\"">>
YellowFragment == <<",", " ", "s", "t", "y", "l", "e", "=", "\"", "f", "i", "l", "l", "e", "d", "\"", ",", " ", "f", "i", "l", "l", "c", "o", "l", "o", "r", "=", "\"", "y", "e", "l", "l", "o", "w", "\"">>
Closing == <<"]", ";", "\n">>

Done == pc = "returned"
Orig == origLines
Without3(s) == SubSeq(s, 1, Len(s) - 3)
RangeOf(s) == {s[k] : k \in DOMAIN s}
MinOf(S) == CHOOSE m \in S : \A n \in S : m <= n
IndexOf(sub, s) ==
  IF Contains(sub, s)
  THEN MinOf({p \in 1..(Len(s) - Len(sub) + 1) :
                s[p] = sub[1] /\ SubSeq(s, p, p + Len(sub) - 1) = sub})
  ELSE 0
IsPrefix(a, b) == Len(a) <= Len(b) /\ SubSeq(b, 1, Len(a)) = a

FaultReps(id) == {k \in 1..Len(trace) : trace[k].faultID = id}
AffReps(id) == {k \in 1..Len(trace) : id \in RangeOf(trace[k].affected)}
LineIDs(line) == {id \in IDs : Contains(Decl(id), line)}
Hit(line) == \E id \in LineIDs(line) : FaultReps(id) # {} \/ AffReps(id) # {}
WellFormed(line) ==
  /\ Len(line) >= 3
  /\ SubSeq(line, Len(line) - 2, Len(line)) = Closing
  /\ Cardinality(LineIDs(Without3(line))) = 1
Appended(j) == SubSeq(graphLines[j], Len(Orig[j]) - 2, Len(graphLines[j]))

(* ---------------- C1 ---------------- *)
C1_Step ==
  (pc = "loop" /\ pc' = "loop") =>
    /\ DOMAIN graphLines' = DOMAIN graphLines
    /\ \A j \in DOMAIN graphLines : j # i => graphLines'[j] = graphLines[j]

C1_Lines ==
  Done => /\ Join(Orig) = graphText
          /\ Len(graphLines) = Len(Orig)
          /\ \A j \in DOMAIN Orig : ~Hit(Orig[j]) => graphLines[j] = Orig[j]

C1_OriginalInv ==
  Done => /\ ReadLines(Target) = graphLines
          /\ Len(ReadLines(Target)) = Len(Orig)
          /\ \A j \in DOMAIN Orig : ~Hit(Orig[j]) => ReadLines(Target)[j] = Orig[j]

(* C1 as stated: the emitted text, read as lines, has exactly the lines of  *)
(* the graph file, every line without a matching declaration is emitted     *)
(* equal to its input line, and an edit of line i changes no other line.    *)
C1_Original == []C1_OriginalInv /\ [][C1_Step]_vars

(* C1 amended: the emitted text is the final lines joined, in order,        *)
(* followed by one extra newline written by print; the final lines are as   *)
(* many as the graph file has, every line without a matching declaration    *)
(* is equal to its input line, and an edit of line i changes no other line. *)
C1_Frame ==
  /\ [](C1_Lines /\ (Done => Target = Join(graphLines) \o <<"\n">>))
  /\ [][C1_Step]_vars

C1_Witness ==
  /\ Done
  /\ \E j, k \in DOMAIN Orig :
       /\ Hit(Orig[j]) /\ graphLines[j] # Orig[j]
       /\ ~Hit(Orig[k]) /\ LineIDs(Orig[k]) # {}

C4_Original ==
  Done => \A j \in DOMAIN Orig : \A id \in IDs :
    (LineIDs(Orig[j]) = {id} /\ FaultReps(id) # {} /\ AffReps(id) # {})
      => /\ Contains(RedFragment, Appended(j))
         /\ Contains(YellowFragment, Appended(j))
              => IndexOf(RedFragment, Appended(j)) < IndexOf(YellowFragment, Appended(j))
         /\ WellFormed(Orig[j]) => Contains(YellowFragment, Appended(j))

(* C4 amended: when no report earlier than the first report carrying the    *)
(* identifier as faultID lists it in its affectedSet, the text appended to  *)
(* the line has a red fragment before any yellow fragment, and on a line    *)
(* ending with "];" and a newline the yellow fragment is present too.       *)
C4_RedFirst ==
  Done => \A j \in DOMAIN Orig : \A id \in IDs :
    (/\ LineIDs(Orig[j]) = {id} /\ FaultReps(id) # {} /\ AffReps(id) # {}
     /\ MinOf(FaultReps(id)) <= MinOf(AffReps(id)))
      => /\ Contains(RedFragment, Appended(j))
         /\ Contains(YellowFragment, Appended(j))
              => IndexOf(RedFragment, Appended(j)) < IndexOf(YellowFragment, Appended(j))
         /\ WellFormed(Orig[j]) => Contains(YellowFragment, Appended(j))

C4_Witness ==
  /\ Done
  /\ \E j \in DOMAIN Orig : \E id \in IDs :
       /\ LineIDs(Orig[j]) = {id} /\ WellFormed(Orig[j])
       /\ FaultReps(id) = {1} /\ AffReps(id) = {2}
       /\ Contains(YellowFragment, Appended(j))

(* ---------------- C5 ---------------- *)
(* C5 as stated: with no matching line the emitted text is byte-identical   *)
(* to the graph file.                                                       *)
C5_Original ==
  (Done /\ \A j \in DOMAIN Orig : ~Hit(Orig[j])) => Target = graphText

(* C5 amended: with no matching line the emitted text is the content of     *)
(* the graph file followed by the one newline that print adds.              *)
C5_PlusNewline ==
  (Done /\ \A j \in DOMAIN Orig : ~Hit(Orig[j])) => Target = graphText \o <<"\n">>

C5_Witness ==
  /\ Done
  /\ trace # <<>>
  /\ \E j \in DOMAIN Orig : LineIDs(Orig[j]) # {}
  /\ \A j \in DOMAIN Orig : ~Hit(Orig[j])

(* ---------------- C6 ---------------- *)
Prev == prevLines
Remarked(j) ==
  /\ graphLines[j] # Orig[j]
  /\ SubSeq(Orig[j], Len(Orig[j]) - 2, Len(Orig[j])) = Closing
  /\ IsPrefix(Without3(Orig[j]), graphLines[j])
  /\ \/ IsPrefix(RedFragment, Appended(j))
     \/ IsPrefix(YellowFragment, Appended(j))

(* C6 as stated: when a line was matched, the run on the own output gives   *)
(* a different text, each line marked by the first run being cut by 3       *)
(* characters of the appended text and marked a second time.                *)
C6_Original ==
  (Done /\ second /\ \E j \in DOMAIN Prev : Hit(Prev[j]))
    => /\ Target # graphText
       /\ \A j \in DOMAIN Prev : Hit(Prev[j]) => Remarked(j)

(* C6 amended: the run on the own output gives a different text, and each   *)
(* marked line whose matching declaration lay wholly before the last 3      *)
(* characters of the original line is cut by 3 characters of the appended   *)
(* text and marked a second time (a declaration reaching into the last 3    *)
(* characters is destroyed by the first cut and the line is not matched     *)
(* again).                                                                  *)
C6_NotIdempotent ==
  (Done /\ second /\ \E j \in DOMAIN Prev : Hit(Prev[j]))
    => /\ Target # graphText
       /\ \A j \in DOMAIN Prev : Hit(Without3(Prev[j])) => Remarked(j)

C6_Witness ==
  /\ Done
  /\ second
  /\ \E j \in DOMAIN Prev : Hit(Without3(Prev[j])) /\ Len(graphLines[j]) > Len(Orig[j])

(* ---------------- C7 ---------------- *)
(* C7: an unreadable or malformed trace, or an unreadable graph, stops the  *)
(* run in an error that is not caught, and the output target holds either   *)
(* nothing or the complete text, the latter only once both inputs are read. *)
C7_AllOrNothing ==
  /\ traceStatus # "ok" => pc \in {"call", "parse", "raised"}
  /\ ~graphOK => pc \in {"call", "parse", "read", "raised"}
  /\ pc = "raised" => error # "none" /\ (traceStatus # "ok" \/ ~graphOK)
  /\ pc \in {"call", "parse", "read", "loop", "raised"} => Target = <<>>
  /\ Target # <<>> =>
       /\ traceStatus = "ok" /\ graphOK
       /\ faultReports = trace
       /\ Len(graphLines) = Len(Orig)
       /\ Target = Join(graphLines) \o <<"\n">>

C7_Witness ==
  /\ pc = "raised"
  /\ error = "IOError"
  /\ traceStatus = "ok"
  /\ trace # <<>>
  /\ output # 0
  /\ fileText = <<>>

(* ---------------- C8 ---------------- *)
RECURSIVE Fragments(_, _)
Fragments(id, k) ==
  IF k > Len(trace) THEN <<>>
  ELSE (IF trace[k].faultID = id THEN RedFragment ELSE <<>>)
       \o (IF id \in RangeOf(trace[k].affected) THEN YellowFragment ELSE <<>>)
       \o Fragments(id, k + 1)

(* C8: a well-formed node line ends as the original minus its last 3        *)
(* characters, one fragment per hit in encounter order (reports in trace    *)
(* order, red before yellow within a report), then "];" and a newline; the  *)
(* fragments are as many as the reports carrying the identifier as faultID  *)
(* plus the reports listing it in their affectedSet.                        *)
C8_Cumulative ==
  Done => \A j \in DOMAIN Orig : \A id \in IDs :
    (WellFormed(Orig[j]) /\ LineIDs(Orig[j]) = {id})
      => /\ graphLines[j] = Without3(Orig[j]) \o Fragments(id, 1) \o Closing
         /\ Len(graphLines[j]) = Len(Orig[j])
              + Len(RedFragment) * Cardinality(FaultReps(id))
              + Len(YellowFragment) * Cardinality(AffReps(id))

C8_Witness ==
  /\ Done
  /\ \E j \in DOMAIN Orig : \E id \in IDs :
       /\ WellFormed(Orig[j]) /\ LineIDs(Orig[j]) = {id}
       /\ Cardinality(FaultReps(id)) + Cardinality(AffReps(id)) >= 3

(* ---------------- C9 ---------------- *)
SpecFaultPass(ls, id) == [j \in DOMAIN ls |-> MarkFault(ls[j], id)]
SpecAffectedPass(ls, x) == [j \in DOMAIN ls |-> MarkAffected(ls[j], x)]

RECURSIVE SpecAffectedPasses(_, _)
SpecAffectedPasses(ls, xs) ==
  IF xs = <<>> THEN ls
  ELSE SpecAffectedPasses(SpecAffectedPass(ls, Head(xs)), Tail(xs))

RECURSIVE SpecOrder(_, _)
SpecOrder(ls, reps) ==
  IF reps = <<>> THEN ls
  ELSE SpecOrder(SpecAffectedPasses(SpecFaultPass(ls, Head(reps).faultID),
                                    Head(reps).affected),
                 Tail(reps))

(* C9: the passes in the order of the description (per report one pass for *)
(* the faultID, then one pass per affectedSet member) give the same final   *)
(* lines as the loop of the code, for every iteration order of the set.     *)
C9_SameLines == Done => graphLines = SpecOrder(Orig, trace)

C9_Witness ==
  /\ Done
  /\ Len(Orig) = 2
  /\ \A j \in DOMAIN Orig : graphLines[j] # Orig[j]
  /\ \E k \in DOMAIN trace :
       /\ Len(trace[k].affected) = 2
       /\ \E j \in DOMAIN Orig :
            /\ trace[k].faultID \in LineIDs(Orig[j])
            /\ RangeOf(trace[k].affected) \cap LineIDs(Orig[j]) # {}

(* ---------------- C10 ---------------- *)
(* C10: after every call with an output path, returned or raised,           *)
(* sys.stdout is the stream it was before the call.                         *)
C10_StdoutRestored ==
  (pc \in {"returned", "raised"} /\ output # 0) => sysStdout = "console"

TypeOK ==
  /\ pc \in {"call", "parse", "read", "loop", "restore", "returned", "raised"}
  /\ sysStdout \in {"console", "file"}
  /\ second \in BOOLEAN
====
